---- MODULE Spec2Model ----
(***************************************************************************)
(* runo: a modal terminal text editor (src/src/main.rs).                   *)
(*                                                                         *)
(* The model covers the text buffer (Buffer::insert, Buffer::remove,       *)
(* Buffer::len), the event translation (Editor::handle_event), the action  *)
(* application and redraw of the main loop (Editor::work, Editor::draw)    *)
(* and the start and end of main.  Characters are Unicode code points.     *)
(* A Vec is a sequence: index i of the Vec is index i + 1 of the sequence. *)
(* The terminal is an external collaborator: what is written to it is not  *)
(* modelled, only whether it is in the alternate raw screen and whether a  *)
(* call of it fails; a call may fail at any time.  A panic (unwrap of None *)
(* or of Err, slice index out of range) ends the process: pc becomes       *)
(* "panic" with the fields as they were when it happened, and fault names  *)
(* the expression that panicked.                                           *)
(***************************************************************************)
EXTENDS Integers, Sequences, FiniteSets, TLC

VARIABLES
    cx,        \* Editor.cx: the screen column computed by the last draw
    cy,        \* Editor.cy: the cursor row
    mode,      \* Editor.mode: "Normal" or "Insert"
    size,      \* Editor.size: the cached terminal size <<columns, rows>>
    buffer,    \* Editor.buffer: [cx |-> logical column, lines |-> Vec<Vec<char>>]
    terminal,  \* "cooked" (as found) or "raw" (changed by run(): in the alternate
               \* screen, in raw mode, or both)
    pc,        \* position in main: "run", "work", "drop", "done" or "panic"
    fault,     \* the expression that panicked: "none", "size", "read", "stdout",
               \* "unwrap" (of a line) or "slice"; "restore" when drop() failed
               \* to restore the terminal (no panic)
    last,      \* history: the event outcome handled last and the state before it
    call,      \* history: the last direct call of a Buffer method
    prev,      \* history: the direct call before that
    typed,     \* history: the characters typed, while the run is a typing run
    key        \* history: the event last given to handle_event on its own

vars == <<cx, cy, mode, size, buffer, terminal, pc, fault, last, call, prev, typed,
          key>>

----------------------------------------------------------------------------
(* Bounds of the model. *)

\* The editor inserts no character that would make the buffer hold more
\* characters than this.
MaxChars == 3
\* NewLine is not applied below this row.
MaxRow == 1
\* A line break is not typed with the logical column at or beyond this.
MaxCol == 1
\* Direct Buffer calls: largest x, largest y, most characters stored.
MaxX == 1
MaxY == 1
MaxBufChars == 3

----------------------------------------------------------------------------
(* Characters. *)

NUL == 0        \* char::default()
TAB == 9        \* '\t'
NL == 10        \* '\n'
CharD == 100    \* 'd'
CharI == 105    \* 'i'
CharQ == 113    \* 'q'

\* constants::TAB_SPACES: the screen columns of a stored tab.
TAB_SPACES == 4

\* usize::saturating_sub
saturating_sub(a, b) == IF a >= b THEN a - b ELSE 0

\* Number of tab characters among the first n elements of line.
RECURSIVE CountTabs(_, _)
CountTabs(line, n) ==
    IF n = 0 THEN 0
    ELSE CountTabs(line, n - 1) + (IF line[n] = TAB THEN 1 ELSE 0)

\* Vec::resize(n, v), used only to grow by the code.
resize(v, n, fill) ==
    IF n <= Len(v) THEN SubSeq(v, 1, n)
    ELSE v \o [i \in 1..(n - Len(v)) |-> fill]

\* Vec::insert(x, e) for x <= len.
VecInsert(v, x, e) == SubSeq(v, 1, x) \o <<e>> \o SubSeq(v, x + 1, Len(v))

\* Vec::remove(x) for x < len.
VecRemove(v, x) == SubSeq(v, 1, x) \o SubSeq(v, x + 2, Len(v))

\* Vec::get(i).is_some()
IsSome(v, i) == i >= 0 /\ i < Len(v)

----------------------------------------------------------------------------
(* Buffer *)

\* Mutant of insert: the character is pushed at the end of the line
\* instead of being inserted at x.
insert_push(lines, x, y, char) ==
    IF char # NL THEN
        LET grown == IF ~IsSome(lines, y) THEN resize(lines, y + 1, <<>>) ELSE lines
            line == grown[y + 1]
            padded == IF ~IsSome(line, x) THEN resize(line, x + 1, NUL) ELSE line
        IN [grown EXCEPT ![y + 1] = Append(padded, char)]
    ELSE lines

\* Buffer::insert: the lines after insert(x, y, char).
insert(lines, x, y, char) ==
    IF char # NL THEN
        LET grown == IF ~IsSome(lines, y) THEN resize(lines, y + 1, <<>>) ELSE lines
            line == grown[y + 1]
            padded == IF ~IsSome(line, x) THEN resize(line, x + 1, NUL) ELSE line
        IN [grown EXCEPT ![y + 1] = VecInsert(padded, x, char)]
    ELSE lines

\* Mutant of remove: a line that the removal leaves empty is dropped.
remove_drops_line(lines, x, y) ==
    IF IsSome(lines, y) /\ IsSome(lines[y + 1], x)
    THEN IF Len(lines[y + 1]) = 1
         THEN VecRemove(lines, y)
         ELSE [lines EXCEPT ![y + 1] = VecRemove(lines[y + 1], x)]
    ELSE lines

\* Mutant of remove: an x beyond the end of the line removes its last
\* character.
remove_clamped(lines, x, y) ==
    IF IsSome(lines, y) /\ Len(lines[y + 1]) > 0
    THEN LET at == IF IsSome(lines[y + 1], x) THEN x ELSE Len(lines[y + 1]) - 1
         IN [lines EXCEPT ![y + 1] = VecRemove(lines[y + 1], at)]
    ELSE lines

\* Buffer::remove: the lines after remove(x, y).
remove(lines, x, y) ==
    IF IsSome(lines, y) /\ IsSome(lines[y + 1], x)
    THEN [lines EXCEPT ![y + 1] = VecRemove(lines[y + 1], x)]
    ELSE lines

\* Buffer::len: the display width of line line_n, 0 when missing or empty.
len(lines, line_n) ==
    IF IsSome(lines, line_n) /\ Len(lines[line_n + 1]) > 0
    THEN Len(lines[line_n + 1])
         + CountTabs(lines[line_n + 1], Len(lines[line_n + 1])) * (TAB_SPACES - 1)
    ELSE 0

----------------------------------------------------------------------------
(* Events read from the terminal. *)

Modes == {"Normal", "Insert"}

\* The characters of the key presses that are tried: the three letters
\* handle_event matches, and the line break, which read() returns as
\* KeyCode::Char('\n') for the input ESC [ 1 0 u.
EventChars == {CharI, CharQ, CharD, NL}

KeyCodes == {"Up", "Down", "Left", "Right", "Delete", "Backspace", "Enter",
             "Tab", "Esc"}

\* The terminal sizes that are tried.
Sizes == {<<80, 24>>, <<100, 30>>}

\* crossterm Event values: key presses (code, character, modifiers),
\* resizes, and the others (focus, mouse, paste).
EventsOf(codes, chars, modifiers) ==
    [kind : {"Key"}, code : codes, char : {NUL}, modifiers : modifiers,
     size : {<<0, 0>>}]
    \cup [kind : {"Key"}, code : {"Char"}, char : chars, modifiers : modifiers,
          size : {<<0, 0>>}]
    \cup [kind : {"Resize"}, code : {"-"}, char : {NUL}, modifiers : {{}}, size : Sizes]
    \cup [kind : {"Focus"}, code : {"-"}, char : {NUL}, modifiers : {{}},
          size : {<<0, 0>>}]

\* The events read() returns to the main loop (the Ok values; for Err see
\* ReadErr).
Events == EventsOf(KeyCodes, EventChars, {{}, {"ALT"}})

\* The events handle_event is tried on by itself: more keys (the letters
\* h, j, k, l among them) under every set of modifiers.
AllEvents ==
    EventsOf(KeyCodes \cup {"Home", "End", "PageUp", "PageDown"},
             EventChars \cup {104, 106, 107, 108},
             SUBSET {"ALT", "SHIFT", "CONTROL"})

Action(name, char) == [name |-> name, char |-> char]

\* Option::None of handle_event.
None == Action("None", NUL)

\* Mutant of handle_event: the arrow keys are matched in Normal mode only.
handle_event_normal_arrows(m, event) ==
    IF event.kind = "Key" THEN
        CASE m = "Normal" /\ event.code = "Up" -> Action("MoveUp", NUL)
          [] m = "Normal" /\ event.code = "Down" -> Action("MoveDown", NUL)
          [] m = "Normal" /\ event.code = "Left" -> Action("MoveLeft", NUL)
          [] m = "Normal" /\ event.code = "Right" -> Action("MoveRight", NUL)
          [] OTHER ->
              IF m = "Normal" THEN
                  CASE event.code = "Char" /\ event.char = CharQ -> Action("Exit", NUL)
                    [] event.code = "Char" /\ event.char = CharI
                       /\ "ALT" \in event.modifiers -> Action("ModeToInsert", NUL)
                    [] (event.code = "Char" /\ event.char = CharD)
                       \/ event.code = "Delete" -> Action("DeleteChar", NUL)
                    [] OTHER -> None
              ELSE
                  CASE event.code = "Char" /\ event.char = CharI
                       /\ "ALT" \in event.modifiers -> Action("ModeToNormal", NUL)
                    [] event.code = "Backspace" -> Action("Backspace", NUL)
                    [] event.code = "Enter" -> Action("NewLine", NUL)
                    [] event.code = "Char" -> Action("AddChar", event.char)
                    [] event.code = "Tab" -> Action("Tab", NUL)
                    [] OTHER -> None
    ELSE None

\* Editor::handle_event: the action a mode and an event translate to.
\* (The Resize arm also stores the size: see the Resize step.)
handle_event(m, event) ==
    IF event.kind = "Key" THEN
        CASE event.code = "Up" -> Action("MoveUp", NUL)
          [] event.code = "Down" -> Action("MoveDown", NUL)
          [] event.code = "Left" -> Action("MoveLeft", NUL)
          [] event.code = "Right" -> Action("MoveRight", NUL)
          [] OTHER ->
              IF m = "Normal" THEN
                  CASE event.code = "Char" /\ event.char = CharQ -> Action("Exit", NUL)
                    [] event.code = "Char" /\ event.char = CharI /\ "ALT" \in event.modifiers ->
                          Action("ModeToInsert", NUL)
                    [] (event.code = "Char" /\ event.char = CharD)
                       \/ event.code = "Delete" -> Action("DeleteChar", NUL)
                    [] OTHER -> None
              ELSE
                  CASE event.code = "Char" /\ event.char = CharI /\ "ALT" \in event.modifiers ->
                          Action("ModeToNormal", NUL)
                    [] event.code = "Backspace" -> Action("Backspace", NUL)
                    [] event.code = "Enter" -> Action("NewLine", NUL)
                    [] event.code = "Char" -> Action("AddChar", event.char)
                    [] event.code = "Tab" -> Action("Tab", NUL)
                    [] OTHER -> None
    ELSE None

----------------------------------------------------------------------------
(* Editor::draw.  The painting loop slices line[..=x] only with x the      *)
(* index of a character of the line, so it cannot fail; the cursor column  *)
(* slices line[..=buffer.cx], which can.                                   *)

\* The slice line[..=buffer.cx] of draw is out of range: the draw panics.
draw_panics(lines, bcx, row) ==
    /\ IsSome(lines, row)
    /\ Len(lines[row + 1]) > 0
    /\ bcx >= Len(lines[row + 1])

\* Editor.cx as draw computes it when the slice is in range.
draw_cx(lines, bcx, row) ==
    IF IsSome(lines, row) /\ Len(lines[row + 1]) > 0
    THEN bcx + (TAB_SPACES - 1) * CountTabs(lines[row + 1], bcx + 1)
    ELSE 0

\* History record of one handled event: what it translated to, whether the
\* cycle reached draw, and the fields before it.
Handled(action, drawn) ==
    [action |-> action.name, char |-> action.char, drawn |-> drawn, cx |-> cx,
     cy |-> cy, buffer |-> buffer, mode |-> mode, size |-> size]

NoKey == [kind |-> "none", code |-> "-", char |-> NUL, modifiers |-> {},
          size |-> <<0, 0>>]

NoCall == [op |-> "none", x |-> 0, y |-> 0, char |-> NUL, before |-> <<>>]

\* A typing run is ModeToInsert applied to the initial state, followed by
\* AddChar of characters other than the line break, and nothing else.
Typing(action) ==
    CASE typed.phase = "initial" /\ action.name = "ModeToInsert" ->
             [phase |-> "typing", chars |-> <<>>]
      [] typed.phase = "typing" /\ action.name = "AddChar" /\ action.char # NL ->
             [phase |-> "typing", chars |-> Append(typed.chars, action.char)]
      [] OTHER -> [phase |-> "other", chars |-> <<>>]

\* Editor::draw with the fields as given.  status_line comes first and
\* unwraps the result of writing to stdout: when the write fails the draw
\* panics there, before self.cx is assigned.  Otherwise the slice decides.
draw(lines, bcx, row) ==
    \/ /\ pc' = "panic"
       /\ fault' = "stdout"
       /\ cx' = cx
    \/ /\ draw_panics(lines, bcx, row)
       /\ pc' = "panic"
       /\ fault' = "slice"
       /\ cx' = cx
    \/ /\ ~draw_panics(lines, bcx, row)
       /\ pc' = "work"
       /\ fault' = fault
       /\ cx' = draw_cx(lines, bcx, row)

\* The end of one cycle of work: the fields the action produced, then
\* Clear and draw.
Redraw(action, cy2, buf2, mode2) ==
    /\ cy' = cy2
    /\ buffer' = buf2
    /\ mode' = mode2
    /\ last' = Handled(action, TRUE)
    /\ typed' = Typing(action)
    /\ draw(buf2.lines, buf2.cx, cy2)
    /\ UNCHANGED <<size, terminal, call, prev, key>>

\* self.handle_event(read().unwrap()): what the events read() returns
\* translate to in each mode.
Translated == [m \in Modes |-> {handle_event(m, event) : event \in Events}]

\* The events read() returns that are no resize and translate to no action
\* in each mode.
Unhandled ==
    [m \in Modes |->
        {event \in Events : event.kind # "Resize" /\ handle_event(m, event) = None}]

\* The event read translates to the action.
Reads(action) ==
    /\ pc = "work"
    /\ action \in Translated[mode]

----------------------------------------------------------------------------
(* main and the actions of Editor::work *)

\* The Editor literal of main.  size().unwrap() panics when the terminal
\* cannot be asked its size: the process ends there and no Editor comes to
\* exist (the fields then stand at the values of the literal, the size at
\* none).
Init ==
    /\ cx = 0
    /\ cy = 0
    /\ mode = "Normal"
    /\ \/ size \in Sizes /\ pc = "run" /\ fault = "none"
       \/ size = <<0, 0>> /\ pc = "panic" /\ fault = "size"
    /\ buffer = [cx |-> 0, lines |-> resize(<<>>, 1, <<>>)]
    /\ terminal = "cooked"
    /\ last = [action |-> "none", char |-> NUL, drawn |-> FALSE, cx |-> 0,
               cy |-> 0, buffer |-> [cx |-> 0, lines |-> <<>>],
               mode |-> "Normal", size |-> <<0, 0>>]
    /\ call = NoCall
    /\ prev = NoCall
    /\ typed = [phase |-> "initial", chars |-> <<>>]
    /\ key = NoKey

\* editor.run(); editor.draw();  The result of enable_raw_mode() is
\* discarded: when it fails the terminal stays as it was.
Run ==
    /\ pc = "run"
    /\ terminal' \in {"raw", terminal}
    /\ draw(buffer.lines, buffer.cx, cy)
    /\ UNCHANGED <<cy, mode, size, buffer, last, call, prev, typed, key>>

\* read().unwrap(): read() returns Err and the loop panics.
ReadErr ==
    /\ pc = "work"
    /\ pc' = "panic"
    /\ fault' = "read"
    /\ last' = Handled(Action("Err", NUL), FALSE)
    /\ typed' = Typing(Action("Err", NUL))
    /\ UNCHANGED <<cx, cy, mode, size, buffer, terminal, call, prev, key>>

MoveUp ==
    /\ Reads(Action("MoveUp", NUL))
    /\ LET cy2 == saturating_sub(cy, 1)
           bcx == saturating_sub(len(buffer.lines, cy2), 1)
       IN Redraw(Action("MoveUp", NUL), cy2, [buffer EXCEPT !.cx = bcx], mode)

\* Mutant of MoveDown: the column is kept when the row changes.
MoveDownKeepsColumn ==
    /\ Reads(Action("MoveDown", NUL))
    /\ IF IsSome(buffer.lines, cy + 1)
       THEN Redraw(Action("MoveDown", NUL), cy + 1, buffer, mode)
       ELSE Redraw(Action("MoveDown", NUL), cy, buffer, mode)

MoveDown ==
    /\ Reads(Action("MoveDown", NUL))
    /\ IF IsSome(buffer.lines, cy + 1)
       THEN Redraw(Action("MoveDown", NUL), cy + 1,
                   [buffer EXCEPT !.cx = saturating_sub(len(buffer.lines, cy + 1), 1)],
                   mode)
       ELSE Redraw(Action("MoveDown", NUL), cy, buffer, mode)

\* lines.get(cy).unwrap() of MoveLeft and MoveRight panics without a line cy.
Unwrap(action) ==
    /\ ~IsSome(buffer.lines, cy)
    /\ pc' = "panic"
    /\ fault' = "unwrap"
    /\ last' = Handled(action, FALSE)
    /\ typed' = Typing(action)
    /\ UNCHANGED <<cx, cy, mode, size, buffer, terminal, call, prev, key>>

MoveLeft ==
    /\ Reads(Action("MoveLeft", NUL))
    /\ \/ Unwrap(Action("MoveLeft", NUL))
       \/ /\ IsSome(buffer.lines, cy)
          /\ LET line == buffer.lines[cy + 1]
                 at == saturating_sub(buffer.cx, 1)
                 bcx == IF IsSome(line, at)
                        THEN saturating_sub(buffer.cx,
                                 IF line[at + 1] = TAB THEN TAB_SPACES ELSE 1)
                        ELSE buffer.cx
             IN Redraw(Action("MoveLeft", NUL), cy, [buffer EXCEPT !.cx = bcx], mode)

\* Mutant of MoveRight: the character looked up is the one at the cursor,
\* not the one after it.
MoveRightAtCursor ==
    /\ Reads(Action("MoveRight", NUL))
    /\ \/ Unwrap(Action("MoveRight", NUL))
       \/ /\ IsSome(buffer.lines, cy)
          /\ LET line == buffer.lines[cy + 1]
                 at == buffer.cx
                 bcx == IF IsSome(line, at)
                        THEN buffer.cx + (IF line[at + 1] = TAB THEN TAB_SPACES ELSE 1)
                        ELSE buffer.cx
             IN Redraw(Action("MoveRight", NUL), cy, [buffer EXCEPT !.cx = bcx], mode)

MoveRight ==
    /\ Reads(Action("MoveRight", NUL))
    /\ \/ Unwrap(Action("MoveRight", NUL))
       \/ /\ IsSome(buffer.lines, cy)
          /\ LET line == buffer.lines[cy + 1]
                 at == buffer.cx + 1
                 bcx == IF IsSome(line, at)
                        THEN buffer.cx + (IF line[at + 1] = TAB THEN TAB_SPACES ELSE 1)
                        ELSE buffer.cx
             IN Redraw(Action("MoveRight", NUL), cy, [buffer EXCEPT !.cx = bcx], mode)

NewLine ==
    /\ Reads(Action("NewLine", NUL))
    /\ cy < MaxRow
    /\ Redraw(Action("NewLine", NUL), cy + 1,
              [cx |-> 0, lines |-> insert(buffer.lines, buffer.cx, cy, NL)], mode)

\* Mutant of Backspace: at column 0 the line is joined to the one above.
BackspaceJoin ==
    /\ Reads(Action("Backspace", NUL))
    /\ IF buffer.cx > 0
       THEN Redraw(Action("Backspace", NUL), cy,
                   [cx |-> buffer.cx - 1,
                    lines |-> remove(buffer.lines, buffer.cx - 1, cy)], mode)
       ELSE IF cy > 0 /\ IsSome(buffer.lines, cy)
            THEN Redraw(Action("Backspace", NUL), cy - 1,
                        [cx |-> 0,
                         lines |-> VecRemove(
                             [buffer.lines EXCEPT
                                 ![cy] = buffer.lines[cy] \o buffer.lines[cy + 1]],
                             cy)], mode)
            ELSE Redraw(Action("Backspace", NUL), saturating_sub(cy, 1), buffer, mode)

Backspace ==
    /\ Reads(Action("Backspace", NUL))
    /\ IF buffer.cx > 0
       THEN Redraw(Action("Backspace", NUL), cy,
                   [cx |-> buffer.cx - 1,
                    lines |-> remove(buffer.lines, buffer.cx - 1, cy)], mode)
       ELSE Redraw(Action("Backspace", NUL), saturating_sub(cy, 1), buffer, mode)

\* Mutant of ModeToNormal: leaving Insert mode steps the cursor back.
ModeToNormalBack ==
    /\ Reads(Action("ModeToNormal", NUL))
    /\ Redraw(Action("ModeToNormal", NUL), cy,
              [buffer EXCEPT !.cx = saturating_sub(buffer.cx, 1)], "Normal")

ModeToNormal ==
    /\ Reads(Action("ModeToNormal", NUL))
    /\ Redraw(Action("ModeToNormal", NUL), cy, buffer, "Normal")

ModeToInsert ==
    /\ Reads(Action("ModeToInsert", NUL))
    /\ Redraw(Action("ModeToInsert", NUL), cy, buffer, "Insert")

\* The number of characters stored in the first n lines.
RECURSIVE Stored(_, _)
Stored(lines, n) == IF n = 0 THEN 0 ELSE Stored(lines, n - 1) + Len(lines[n])

\* The insertion at the cursor keeps the buffer within the model's bound.
Fits(char) ==
    /\ Stored(insert(buffer.lines, buffer.cx, cy, char),
              Len(insert(buffer.lines, buffer.cx, cy, char))) <= MaxChars
    /\ char = NL => buffer.cx < MaxCol

AddChar ==
    \E char \in EventChars :
        /\ Reads(Action("AddChar", char))
        /\ Fits(char)
        /\ Redraw(Action("AddChar", char), cy,
                  [cx |-> buffer.cx + 1,
                   lines |-> insert(buffer.lines, buffer.cx, cy, char)], mode)

Tab ==
    /\ Reads(Action("Tab", NUL))
    /\ Fits(TAB)
    /\ Redraw(Action("Tab", NUL), cy,
              [cx |-> buffer.cx + 1,
               lines |-> insert(buffer.lines, buffer.cx, cy, TAB)], mode)

\* Mutant of DeleteChar: with no character at the cursor the next line is
\* joined to this one.
DeleteCharJoin ==
    /\ Reads(Action("DeleteChar", NUL))
    /\ IF /\ IsSome(buffer.lines, cy)
          /\ ~IsSome(buffer.lines[cy + 1], buffer.cx)
          /\ IsSome(buffer.lines, cy + 1)
       THEN Redraw(Action("DeleteChar", NUL), cy,
                   [buffer EXCEPT !.lines = VecRemove(
                       [buffer.lines EXCEPT
                           ![cy + 1] = buffer.lines[cy + 1] \o buffer.lines[cy + 2]],
                       cy + 1)], mode)
       ELSE Redraw(Action("DeleteChar", NUL), cy,
                   [buffer EXCEPT !.lines = remove(buffer.lines, buffer.cx, cy)], mode)

DeleteChar ==
    /\ Reads(Action("DeleteChar", NUL))
    /\ Redraw(Action("DeleteChar", NUL), cy,
              [buffer EXCEPT !.lines = remove(buffer.lines, buffer.cx, cy)], mode)

\* Actions::Exit => break
Exit ==
    /\ Reads(Action("Exit", NUL))
    /\ pc' = "drop"
    /\ last' = Handled(Action("Exit", NUL), FALSE)
    /\ typed' = Typing(Action("Exit", NUL))
    /\ UNCHANGED <<cx, cy, mode, size, buffer, terminal, fault, call, prev, key>>

\* Event::Resize(x, y): the size is stored, no action comes out.
Resize ==
    /\ pc = "work"
    /\ \E event \in Events :
           /\ event.kind = "Resize"
           /\ size' = event.size
    /\ last' = Handled(Action("Resize", NUL), FALSE)
    /\ UNCHANGED <<cx, cy, mode, buffer, terminal, pc, fault, call, prev, typed, key>>

\* Mutant of Ignore: the screen is redrawn after every event, action or
\* not.
IgnoreRedraw ==
    /\ pc = "work"
    /\ Unhandled[mode] # {}
    /\ last' = Handled(None, TRUE)
    /\ UNCHANGED <<cx, cy, mode, size, buffer, terminal, pc, fault, call, prev, typed,
                   key>>

\* Any other event that handle_event maps to None: nothing happens.
Ignore ==
    /\ pc = "work"
    /\ Unhandled[mode] # {}
    /\ last' = Handled(None, FALSE)
    /\ UNCHANGED <<cx, cy, mode, size, buffer, terminal, pc, fault, call, prev, typed,
                   key>>

\* editor.drop(): leave the alternate screen, disable raw mode.  The
\* results of both calls are discarded: when one fails the process ends all
\* the same, without a panic, and the terminal is left as it was.
Drop ==
    /\ pc = "drop"
    /\ pc' = "done"
    /\ \/ terminal' = "cooked" /\ fault' = fault
       \/ terminal' = terminal /\ fault' = "restore"
    /\ UNCHANGED <<cx, cy, mode, size, buffer, last, call, prev, typed, key>>

Next ==
    \/ Run
    \/ ReadErr
    \/ MoveUp
    \/ MoveDown
    \/ MoveLeft
    \/ MoveRight
    \/ NewLine
    \/ Backspace
    \/ ModeToNormal
    \/ ModeToInsert
    \/ AddChar
    \/ Tab
    \/ DeleteChar
    \/ Exit
    \/ Resize
    \/ Ignore
    \/ Drop

Spec == Init /\ [][Next]_vars

----------------------------------------------------------------------------
(* Editor::handle_event by itself, on any event in either mode.            *)

TranslateInit ==
    /\ cx = 0
    /\ cy = 0
    /\ mode \in Modes
    /\ size \in Sizes
    /\ buffer = [cx |-> 0, lines |-> resize(<<>>, 1, <<>>)]
    /\ terminal = "raw"
    /\ pc = "work"
    /\ fault = "none"
    /\ last = [action |-> "none", char |-> NUL, drawn |-> FALSE, cx |-> 0,
               cy |-> 0, buffer |-> [cx |-> 0, lines |-> <<>>],
               mode |-> "Normal", size |-> <<0, 0>>]
    /\ call = NoCall
    /\ prev = NoCall
    /\ typed = [phase |-> "initial", chars |-> <<>>]
    /\ key = NoKey

\* One call of handle_event: the action it returns is recorded, and the
\* Resize arm stores the size.
Translate ==
    \E event \in AllEvents :
        /\ key' = event
        /\ last' = Handled(handle_event(mode, event), FALSE)
        /\ size' = IF event.kind = "Resize" THEN event.size ELSE size
        /\ UNCHANGED <<cx, cy, mode, buffer, terminal, pc, fault, call, prev, typed>>

TranslateSpec == TranslateInit /\ [][Translate]_vars

----------------------------------------------------------------------------
(* Direct calls of the Buffer methods, with any arguments, on the buffer   *)
(* main creates.                                                           *)

\* The characters tried as the argument of insert.
BufChars == {CharQ, NL}

Called(op, x, y, char) ==
    [op |-> op, x |-> x, y |-> y, char |-> char, before |-> buffer.lines]

\* The buffer holds no more characters than the bound.
Small(lines) == Stored(lines, Len(lines)) <= MaxBufChars

BufInsert ==
    \E x \in 0..MaxX, y \in 0..MaxY, char \in BufChars :
        /\ Small(insert(buffer.lines, x, y, char))
        /\ buffer' = [buffer EXCEPT !.lines = insert(buffer.lines, x, y, char)]
        /\ call' = Called("insert", x, y, char)
        /\ prev' = call
        /\ UNCHANGED <<cx, cy, mode, size, terminal, pc, fault, last, typed, key>>

BufRemove ==
    \E x \in 0..MaxX, y \in 0..MaxY :
        /\ buffer' = [buffer EXCEPT !.lines = remove(buffer.lines, x, y)]
        /\ call' = Called("remove", x, y, NUL)
        /\ prev' = call
        /\ UNCHANGED <<cx, cy, mode, size, terminal, pc, fault, last, typed, key>>

BufNext ==
    \/ BufInsert
    \/ BufRemove

\* The buffer of the Editor main has built.
BufInit == Init /\ pc = "run"

BufSpec == BufInit /\ [][BufNext]_vars

----------------------------------------------------------------------------
(* Properties *)

\* A character is stored at column x of row y.
HasChar(lines, x, y) == IsSome(lines, y) /\ IsSome(lines[y + 1], x)

\* The content of row y, empty when there is no such row.
LineAt(lines, y) == IF IsSome(lines, y) THEN lines[y + 1] ELSE <<>>

\* A call of the terminal has failed (its size, the read of an event, a
\* write to stdout, the restoration in drop()): the process has panicked on
\* it, or has ended without restoring the terminal, through no access of
\* its own.  The claims that are refuted are refuted in states where the
\* terminal has not failed.
TerminalFailed == fault \in {"size", "read", "stdout", "restore"}

\* C1: no sequence of actions from the initial state reaches a fault: every
\* access to a missing row or column is a no-op, never a panic.  (A panic
\* on a failed call of the terminal is not an access and is left aside.)
C1_NeverFaults == pc = "panic" => TerminalFailed

\* C2: in every reachable state the cursor row is that of an existing line:
\* 0 <= cy <= number of lines - 1.
C2_CyInRange == ~TerminalFailed => (cy >= 0 /\ cy <= Len(buffer.lines) - 1)

\* C3: the buffer is created with exactly one empty line, and after any
\* sequence of insert and remove calls it has at least one line.
C3_NeverEmpty ==
    /\ call.op = "none" => buffer.lines = << <<>> >>
    /\ Len(buffer.lines) >= 1

\* C3 witness: a remove call has taken the last character out of the buffer.
C3_Witness ==
    /\ call.op = "remove"
    /\ prev.op = "insert"
    /\ buffer.lines # call.before
    /\ Stored(buffer.lines, Len(buffer.lines)) = 0

\* C4: right after insert(x, y, ch), ch not the line break, row y exists and
\* its character at index x is ch.
C4_InsertThenRead ==
    (call.op = "insert" /\ call.char # NL) =>
        /\ HasChar(buffer.lines, call.x, call.y)
        /\ buffer.lines[call.y + 1][call.x + 1] = call.char

\* C4 witness: an insert that had to grow both the rows and the line.
C4_Witness ==
    /\ call.op = "insert"
    /\ call.char # NL
    /\ ~IsSome(call.before, call.y)
    /\ call.x > 0
    /\ buffer.lines[call.y + 1][call.x + 1] = call.char

\* The last two calls were insert(x, y, ch), ch not the line break, and then
\* remove(x, y).
RoundTrip ==
    /\ prev.op = "insert"
    /\ prev.char # NL
    /\ call.op = "remove"
    /\ call.x = prev.x
    /\ call.y = prev.y

\* C5: insert(x, y, ch), ch not the line break, then remove(x, y) leaves
\* line y with exactly the content it had before the insert, for every x,
\* at or beyond the end of the line included.
C5_RoundTrip ==
    RoundTrip => LineAt(buffer.lines, call.y) = LineAt(prev.before, call.y)

\* C6: remove(x, y) with no row y, or with no character at index x of row y,
\* changes nothing: the lines are the same before and after.
C6_RemoveNothing ==
    (call.op = "remove" /\ ~HasChar(call.before, call.x, call.y)) =>
        buffer.lines = call.before

\* C6 witness: a remove beyond the end of a line that holds characters, and
\* a remove on a missing row.
C6_Witness ==
    /\ call.op = "remove"
    /\ IsSome(call.before, call.y)
    /\ Len(call.before[call.y + 1]) > 0
    /\ ~IsSome(call.before[call.y + 1], call.x)
    /\ prev.op = "remove"
    /\ ~IsSome(prev.before, prev.y)

\* C7: after ModeToInsert and AddChar(c1) .. AddChar(cn) from the initial
\* state, line 0 is exactly <<c1, .., cn>>, the logical column is n and the
\* row is 0.
C7_Typing ==
    (typed.phase = "typing" /\ ~TerminalFailed) =>
        /\ LineAt(buffer.lines, 0) = typed.chars
        /\ buffer.cx = Len(typed.chars)
        /\ cy = 0

\* C8: NewLine at row cy leaves the cursor at row cy + 1, logical column 0,
\* with a line at the new row, and the line at row cy as it was.
C8_NewLine ==
    (last.action = "NewLine" /\ ~TerminalFailed) =>
        /\ cy = last.cy + 1
        /\ buffer.cx = 0
        /\ IsSome(buffer.lines, cy)
        /\ IsSome(buffer.lines, last.cy) = IsSome(last.buffer.lines, last.cy)
        /\ LineAt(buffer.lines, last.cy) = LineAt(last.buffer.lines, last.cy)

\* C9: Backspace at logical column 0 moves the row up by one, saturating at
\* 0, leaves the column at 0 and leaves the whole buffer as it was.
C9_BackspaceAtColumn0 ==
    (last.action = "Backspace" /\ last.buffer.cx = 0) =>
        /\ cy = saturating_sub(last.cy, 1)
        /\ buffer.cx = 0
        /\ buffer.lines = last.buffer.lines

\* C9 witness: Backspace at column 0 of row 1, a line with characters at
\* row 1 and at row 0.
C9_Witness ==
    /\ last.action = "Backspace"
    /\ last.buffer.cx = 0
    /\ last.cy = 1
    /\ cy = 0
    /\ Len(LineAt(buffer.lines, 1)) > 0
    /\ Len(LineAt(buffer.lines, 0)) > 0

\* C10: DeleteChar with no character stored at the cursor completes its
\* cycle, redraw included, without a fault (the terminal accepting what is
\* written to it), and leaves the buffer content and the logical cursor as
\* they were.
C10_DeleteNothing ==
    (last.action = "DeleteChar"
     /\ ~HasChar(last.buffer.lines, last.buffer.cx, last.cy)) =>
        /\ pc = "work" \/ fault = "stdout"
        /\ buffer.lines = last.buffer.lines
        /\ buffer.cx = last.buffer.cx
        /\ cy = last.cy

\* C10 witness: DeleteChar on an empty line while other lines hold
\* characters.
C10_Witness ==
    /\ last.action = "DeleteChar"
    /\ IsSome(last.buffer.lines, last.cy)
    /\ ~HasChar(last.buffer.lines, last.buffer.cx, last.cy)
    /\ Stored(buffer.lines, Len(buffer.lines)) > 0
    /\ pc = "work"

\* C11: MoveRight with the logical column on the last stored character of
\* the line leaves the column, the row and the buffer as they were, however
\* often it is applied (each application starts from the same fields).
C11_MoveRightAtEnd ==
    (/\ last.action = "MoveRight"
     /\ IsSome(last.buffer.lines, last.cy)
     /\ Len(last.buffer.lines[last.cy + 1]) > 0
     /\ last.buffer.cx = Len(last.buffer.lines[last.cy + 1]) - 1) =>
        /\ buffer = last.buffer
        /\ cy = last.cy
        /\ pc = "work" \/ fault = "stdout"

\* C11 witness: MoveRight on the last character of a line of two or more.
C11_Witness ==
    /\ last.action = "MoveRight"
    /\ IsSome(last.buffer.lines, last.cy)
    /\ Len(last.buffer.lines[last.cy + 1]) >= 2
    /\ last.buffer.cx = Len(last.buffer.lines[last.cy + 1]) - 1
    /\ buffer.cx = last.buffer.cx
    /\ pc = "work"

\* C12: the process is out of the main loop only after an Exit action read
\* in Normal mode (the 'q' key), and then the terminal is restored; no
\* other sequence of events takes it out of the loop.  (A failed call of
\* the terminal is not an event and is left aside.)
C12_LeavesLoopOnlyByQuit ==
    /\ (pc \notin {"run", "work"} /\ ~TerminalFailed) =>
           /\ pc \in {"drop", "done"}
           /\ last.action = "Exit"
           /\ last.mode = "Normal"
    /\ (pc = "done" /\ ~TerminalFailed) => terminal = "cooked"
    /\ (last.action = "AddChar" /\ last.char = CharQ) => pc \in {"work", "panic"}

\* C13: the mode is Normal at first; ModeToInsert and ModeToNormal set it
\* and change nothing else (buffer, logical column, row); every other event
\* or action leaves the mode as it was.
C13_ModeChanges ==
    /\ last.action = "none" => mode = "Normal"
    /\ last.action = "ModeToInsert" =>
           /\ mode = "Insert" /\ buffer = last.buffer /\ cy = last.cy
           /\ pc = "work" \/ fault = "stdout"
    /\ last.action = "ModeToNormal" =>
           /\ mode = "Normal" /\ buffer = last.buffer /\ cy = last.cy
           /\ pc = "work" \/ fault = "stdout"
    /\ last.action \notin {"none", "ModeToInsert", "ModeToNormal"} =>
           mode = last.mode

\* C13 witness: ModeToNormal applied below row 0 with characters stored and
\* the column beyond 0.
C13_Witness ==
    /\ last.action = "ModeToNormal"
    /\ last.mode = "Insert"
    /\ mode = "Normal"
    /\ buffer.cx > 0
    /\ cy > 0
    /\ pc = "work"

\* C14: whenever a line exists at the cursor row, the logical column is
\* within 0 .. the number of characters stored in that line.
C14_ColumnInLine ==
    (IsSome(buffer.lines, cy) /\ ~TerminalFailed) =>
        buffer.cx >= 0 /\ buffer.cx <= Len(buffer.lines[cy + 1])

\* C15 as claimed: MoveDown with a line at cy + 1 sets the logical column
\* to that line's number of stored characters and adds one to cy; without
\* such a line it changes nothing.
C15_MoveDownToLength ==
    (last.action = "MoveDown" /\ ~TerminalFailed) =>
        IF IsSome(last.buffer.lines, last.cy + 1)
        THEN /\ buffer.cx = Len(last.buffer.lines[last.cy + 2])
             /\ cy = last.cy + 1
             /\ buffer.lines = last.buffer.lines
        ELSE buffer = last.buffer /\ cy = last.cy

\* C15 as amended: MoveDown with a line at cy + 1 sets the logical column
\* to that line's Buffer.len (stored characters, each tab counted as
\* TAB_SPACES) minus one, saturating at 0, and adds one to cy; without such
\* a line it changes nothing.
C15_MoveDownToLast ==
    last.action = "MoveDown" =>
        IF IsSome(last.buffer.lines, last.cy + 1)
        THEN LET line == last.buffer.lines[last.cy + 2]
                 tabs == Cardinality({i \in 1..Len(line) : line[i] = TAB})
                 width == Len(line) + tabs * (TAB_SPACES - 1)
             IN /\ buffer.cx = IF width = 0 THEN 0 ELSE width - 1
                /\ cy = last.cy + 1
                /\ buffer.lines = last.buffer.lines
        ELSE buffer = last.buffer /\ cy = last.cy

\* C15 witness: MoveDown onto a line that holds characters.
C15_Witness ==
    /\ last.action = "MoveDown"
    /\ cy = last.cy + 1
    /\ buffer.cx > 0
    /\ pc = "work"

\* C16: MoveRight adds exactly 1 to the logical column when a character is
\* stored at cx + 1 and leaves it otherwise; MoveLeft takes exactly 1 from
\* it when cx > 0 and a character is stored at cx - 1, and leaves it
\* otherwise.
C16_HorizontalByOne ==
    /\ (last.action = "MoveRight" /\ ~TerminalFailed) =>
           buffer.cx = last.buffer.cx
               + (IF HasChar(last.buffer.lines, last.buffer.cx + 1, last.cy)
                  THEN 1 ELSE 0)
    /\ (last.action = "MoveLeft" /\ ~TerminalFailed) =>
           buffer.cx = last.buffer.cx
               - (IF last.buffer.cx > 0
                     /\ HasChar(last.buffer.lines, last.buffer.cx - 1, last.cy)
                  THEN 1 ELSE 0)

\* C17: Backspace with the logical column beyond 0 removes exactly the
\* character at cx - 1 of line cy (one character fewer, the others in
\* order, the other lines untouched) and takes 1 from cx; cx never goes
\* down without a character being removed.  (The first conjunct says that
\* there is such a character; the others are read only when it holds.)
C17_BackspaceRemoves ==
    (last.action = "Backspace" /\ last.buffer.cx > 0 /\ ~TerminalFailed) =>
        /\ HasChar(last.buffer.lines, last.buffer.cx - 1, last.cy)
        /\ buffer.cx = last.buffer.cx - 1
        /\ cy = last.cy
        /\ Len(buffer.lines) = Len(last.buffer.lines)
        /\ \A r \in 1..Len(buffer.lines) :
               IF r = cy + 1
               THEN /\ Len(buffer.lines[r]) = Len(last.buffer.lines[r]) - 1
                    /\ \A i \in 1..Len(buffer.lines[r]) :
                           buffer.lines[r][i] =
                               last.buffer.lines[r][IF i <= buffer.cx THEN i ELSE i + 1]
               ELSE buffer.lines[r] = last.buffer.lines[r]

\* C18: in both modes and under any modifiers the Up, Down, Left and Right
\* keys translate to MoveUp, MoveDown, MoveLeft and MoveRight, and no other
\* event translates to a Move action.
C18_Arrows ==
    LET arrow == [Up |-> "MoveUp", Down |-> "MoveDown", Left |-> "MoveLeft",
                  Right |-> "MoveRight"]
    IN key.kind # "none" =>
           IF key.kind = "Key" /\ key.code \in DOMAIN arrow
           THEN last.action = arrow[key.code]
           ELSE last.action \notin {"MoveUp", "MoveDown", "MoveLeft", "MoveRight"}

\* C18 witness: an arrow key with modifiers translated in Insert mode.
C18_Witness ==
    /\ key.kind = "Key"
    /\ key.code = "Left"
    /\ key.modifiers = {"SHIFT", "CONTROL"}
    /\ mode = "Insert"
    /\ last.action = "MoveLeft"

\* C19: an event that translates to no action leaves the buffer, the
\* logical cursor and the mode as they were and draws nothing; a resize
\* changes only the cached size, an unrecognised key changes nothing.
C19_NoAction ==
    /\ last.action \in {"None", "Resize"} =>
           /\ buffer = last.buffer
           /\ cy = last.cy
           /\ cx = last.cx
           /\ mode = last.mode
           /\ ~last.drawn
           /\ pc = "work"
    /\ last.action = "None" => size = last.size

\* C19 witness: a resize that changed the size, in a state with characters
\* stored.
C19_Witness ==
    /\ last.action = "Resize"
    /\ size # last.size
    /\ Stored(buffer.lines, Len(buffer.lines)) > 0
    /\ buffer.cx > 0

\* C20: whenever the line at the cursor row exists and holds characters,
\* the logical column is below its length, so that the slice
\* line[..=buffer.cx] of the redraw is in range after every action.
C20_SliceInRange ==
    (IsSome(buffer.lines, cy) /\ Len(buffer.lines[cy + 1]) > 0 /\ ~TerminalFailed) =>
        buffer.cx < Len(buffer.lines[cy + 1])

====
